---- MODULE Spec2Model ----
(***************************************************************************)
(* raspdemo01/writeLED.py: a script that drives one GPIO pin from one      *)
(* command-line argument.  One process invocation executes the module     *)
(* body top to bottom; the pin hardware (direction and output latch)       *)
(* outlives the process, because the script never calls GPIO.cleanup().    *)
(* Each statement of the script is one action; pc names the line that is   *)
(* about to execute.                                                       *)
(***************************************************************************)
EXTENDS Integers, Sequences, FiniteSets, TLC

\* ------------------------------------------------------------------ bounds
\* Largest number of command-line arguments (beyond the program name).
MaxArgs == 2

\* ------------------------------------------------------- program constants
\* line 5 naming the neighbouring header pin
PINnum_other == 12 - 1

\* line 5: PINnum = 12
PINnum == 12

\* writeLED.py:13  if(argc != 2)
ExpectedArgc == 2

\* writeLED.py:16,18  argvs[1]
ArgIndex == 1

\* sys.argv[0]
ProgName == "writeLED.py"

\* Header pins the hardware state covers: the script's pin and a neighbour.
Pins == {11, 12}

\* Argument strings a caller may pass.
ArgValues == {"Y", "N", "y", "yes", ""}

RECURSIVE SeqsUpTo(_, _)
SeqsUpTo(S, n) ==
    IF n = 0 THEN {<<>>}
    ELSE LET shorter == SeqsUpTo(S, n - 1)
         IN  shorter \cup {Append(s, x) : s \in {t \in shorter : Len(t) = n - 1}, x \in S}

\* Every argument list of at most MaxArgs arguments.
ArgLists == SeqsUpTo(ArgValues, MaxArgs)

\* ------------------------------------------------------------------- state
VARIABLES
    direction,   \* hardware: pin -> "IN" | "OUT"  (persists across invocations)
    level,       \* hardware: pin -> output latch  (persists across invocations)
    pc,          \* line of the script about to execute, "end" or "done"
    sys_argv,    \* sys.argv of this process: program name, then the arguments
    gpio_mode,   \* numbering mode of this process's GPIO module: "NONE" | "BOARD"
    argvs,       \* the script's variable argvs (<<>> while unbound)
    argc,        \* the script's variable argc (-1 while unbound)
    status,      \* "running" | "ok" (exit status 0) | "error" (uncaught exception)
    ops,         \* GPIO calls made by this process, in order
    start,       \* hardware state when this process started
    prev         \* the previous invocation: its arguments, GPIO calls and status

vars == <<direction, level, pc, sys_argv, gpio_mode, argvs, argc, status, ops, start, prev>>

hw == <<direction, level>>
locals == <<sys_argv, gpio_mode, argvs, argc>>
history == <<start, prev>>

\* ------------------------------------------------- the GPIO calls, as data
OpSetmode(m) == [op |-> "setmode", pin |-> 0, dir |-> m, value |-> FALSE]
OpSetup(p, d) == [op |-> "setup", pin |-> p, dir |-> d, value |-> FALSE]
OpOutput(p, v) == [op |-> "output", pin |-> p, dir |-> "", value |-> v]

\* Python's s[i] on a list: zero-based.
PyIndex(s, i) == s[i + 1]

NoPrev == [ran |-> FALSE, args |-> <<>>, ops |-> <<>>, status |-> "running"]

\* A fresh process started with the argument list args.
Launch(args) ==
    /\ pc' = "l7"
    /\ sys_argv' = <<ProgName>> \o args
    /\ gpio_mode' = "NONE"
    /\ argvs' = <<>>
    /\ argc' = -1
    /\ status' = "running"
    /\ ops' = <<>>

Init ==
    /\ direction \in {d \in [Pins -> {"IN", "OUT"}] : \A p \in Pins \ {PINnum} : d[p] = "IN"}
    /\ level \in [Pins -> BOOLEAN]
    /\ pc = "l7"
    /\ sys_argv \in {<<ProgName>> \o a : a \in ArgLists}
    /\ gpio_mode = "NONE"
    /\ argvs = <<>>
    /\ argc = -1
    /\ status = "running"
    /\ ops = <<>>
    /\ start = [direction |-> direction, level |-> level]
    /\ prev = NoPrev

\* ------------------------------------------------------------- the script
\* line 7: GPIO.setmode(GPIO.BOARD)
Setmode ==
    /\ pc = "l7"
    /\ gpio_mode' = "BOARD"
    /\ ops' = Append(ops, OpSetmode("BOARD"))
    /\ pc' = "l8"
    /\ UNCHANGED <<hw, sys_argv, argvs, argc, status, history>>

\* line 8 left out: the pin is never configured.
Setup_skipped ==
    /\ pc = "l8"
    /\ pc' = "l10"
    /\ UNCHANGED <<hw, locals, status, ops, history>>

\* line 8: GPIO.setup(PINnum, GPIO.OUT)   (no initial=, so the latch is kept)
Setup ==
    /\ pc = "l8"
    /\ direction' = [direction EXCEPT ![PINnum] = "OUT"]
    /\ ops' = Append(ops, OpSetup(PINnum, "OUT"))
    /\ pc' = "l10"
    /\ UNCHANGED <<level, locals, status, history>>

\* line 10: argvs = sys.argv
BindArgvs ==
    /\ pc = "l10"
    /\ argvs' = sys_argv
    /\ pc' = "l11"
    /\ UNCHANGED <<hw, sys_argv, gpio_mode, argc, status, ops, history>>

\* line 11: argc = len(argvs)
BindArgc ==
    /\ pc = "l11"
    /\ argc' = Len(argvs)
    /\ pc' = "l13"
    /\ UNCHANGED <<hw, sys_argv, gpio_mode, argvs, status, ops, history>>

\* line 13 written as  if(argc < 2)
ArgcRejected_atleast(n) == n < ExpectedArgc

\* line 13: the condition  argc != 2
ArgcRejected(n) == n # ExpectedArgc

\* line 13: if(argc != 2):
CheckArgc ==
    /\ pc = "l13"
    /\ pc' = IF ArgcRejected(argc) THEN "l14" ELSE "l16"
    /\ UNCHANGED <<hw, locals, status, ops, history>>

\* line 14 written as  sys.exit(1)
Quit_status1 ==
    /\ pc = "l14"
    /\ pc' = "done"
    /\ status' = "error"
    /\ UNCHANGED <<hw, locals, ops, history>>

\* line 14: quit()   (raises SystemExit with no code: exit status 0)
Quit ==
    /\ pc = "l14"
    /\ pc' = "done"
    /\ status' = "ok"
    /\ UNCHANGED <<hw, locals, ops, history>>

\* line 16 comparing without regard to case
IsY_anycase(a) == a \in {"Y", "y"}

\* line 16: the comparison  == "Y"
IsY(a) == a = "Y"

\* line 18: the comparison  == "N"
IsN(a) == a = "N"

\* line 17 toggling the pin instead of setting it
ValueY_toggle == ~level[PINnum]

\* line 17 writing the wrong level
ValueY_low == FALSE

\* line 17: the level written, True
ValueY == TRUE

\* line 19 writing the wrong level
ValueN_high == TRUE

\* line 19: the level written, False
ValueN == FALSE

\* line 16: if (argvs[1]=="Y"):    (argvs[1] raises IndexError on a short list)
TestY ==
    /\ pc = "l16"
    /\ IF Len(argvs) <= ArgIndex
         THEN pc' = "done" /\ status' = "error"
         ELSE /\ pc' = IF IsY(PyIndex(argvs, ArgIndex)) THEN "l17" ELSE "l18"
              /\ UNCHANGED status
    /\ UNCHANGED <<hw, locals, ops, history>>

\* line 17 followed by the write of line 19 (the elif branch not skipped)
OutputY_fallthrough ==
    /\ pc = "l17"
    /\ level' = [level EXCEPT ![PINnum] = ValueY]
    /\ ops' = Append(ops, OpOutput(PINnum, ValueY))
    /\ pc' = "l19"
    /\ UNCHANGED <<direction, locals, status, history>>

\* line 17: GPIO.output(PINnum, True)
OutputY ==
    /\ pc = "l17"
    /\ level' = [level EXCEPT ![PINnum] = ValueY]
    /\ ops' = Append(ops, OpOutput(PINnum, ValueY))
    /\ pc' = "end"
    /\ UNCHANGED <<direction, locals, status, history>>

\* line 18: elif(argvs[1]=="N"):
TestN ==
    /\ pc = "l18"
    /\ IF Len(argvs) <= ArgIndex
         THEN pc' = "done" /\ status' = "error"
         ELSE /\ pc' = IF IsN(PyIndex(argvs, ArgIndex)) THEN "l19" ELSE "end"
              /\ UNCHANGED status
    /\ UNCHANGED <<hw, locals, ops, history>>

\* line 19: GPIO.output(PINnum, False)
OutputN ==
    /\ pc = "l19"
    /\ level' = [level EXCEPT ![PINnum] = ValueN]
    /\ ops' = Append(ops, OpOutput(PINnum, ValueN))
    /\ pc' = "end"
    /\ UNCHANGED <<direction, locals, status, history>>

\* end of file: the interpreter exits with status 0
EndOfScript ==
    /\ pc = "end"
    /\ pc' = "done"
    /\ status' = "ok"
    /\ UNCHANGED <<hw, locals, ops, history>>

\* One statement of the running process.
RunStep ==
    \/ Setmode
    \/ Setup
    \/ BindArgvs
    \/ BindArgc
    \/ CheckArgc
    \/ Quit
    \/ TestY
    \/ OutputY
    \/ TestN
    \/ OutputN
    \/ EndOfScript

\* The script is invoked again after the previous process has exited; the
\* hardware is left as that process left it.
Invoke ==
    /\ pc = "done"
    /\ \E a \in ArgLists : Launch(a)
    /\ start' = [direction |-> direction, level |-> level]
    /\ prev' = [ran |-> TRUE, args |-> Tail(sys_argv), ops |-> ops, status |-> status]
    /\ UNCHANGED hw

Next ==
    \/ Setmode
    \/ Setup
    \/ BindArgvs
    \/ BindArgc
    \/ CheckArgc
    \/ Quit
    \/ TestY
    \/ OutputY
    \/ TestN
    \/ OutputN
    \/ EndOfScript
    \/ Invoke

Spec == Init /\ [][Next]_vars

TypeOK ==
    /\ direction \in [Pins -> {"IN", "OUT"}]
    /\ level \in [Pins -> BOOLEAN]
    /\ pc \in {"l7", "l8", "l10", "l11", "l13", "l14", "l16", "l17", "l18", "l19", "end", "done"}
    /\ gpio_mode \in {"NONE", "BOARD"}
    /\ status \in {"running", "ok", "error"}
    /\ argc \in -1 .. MaxArgs + 1

\* ------------------------------------------------------ claim vocabulary
\* The arguments of the running process, beyond the program name.
Args == Tail(sys_argv)

\* The pin writes made so far by the running process.
Writes == SelectSeq(ops, LAMBDA o : o.op = "output")

CountInvalid(a) == Len(a) # 1
ValueInvalid(a) == Len(a) = 1 /\ a[1] \notin {"Y", "N"}
Invalid(a) == CountInvalid(a) \/ ValueInvalid(a)

\* The process has exited with status 0.
ExitedNormally == pc = "done" /\ status = "ok"

\* The process raises no error and is never stuck before it exits; every
\* statement moves forward in the file, so it then exits.
RunsToExit ==
    /\ status # "error"
    /\ pc # "done" => ENABLED RunStep
    /\ pc = "done" => status = "ok"

\* C1: a run whose only argument is "Y" makes exactly one pin write, that
\* write drives pin 12 high, and the run exits normally.
C1_YWritesHighOnce ==
    Args = <<"Y">> =>
        /\ Len(Writes) <= 1
        /\ RunsToExit
        /\ pc = "done" => Writes = <<OpOutput(12, TRUE)>> /\ level[12] = TRUE

C1_Witness == Args = <<"Y">> /\ ExitedNormally /\ Len(Writes) = 1 /\ level[12]

\* C2: a run whose only argument is "N" makes exactly one pin write, that
\* write drives pin 12 low, and the run exits normally.
C2_NWritesLowOnce ==
    Args = <<"N">> =>
        /\ Len(Writes) <= 1
        /\ RunsToExit
        /\ pc = "done" => Writes = <<OpOutput(12, FALSE)>> /\ level[12] = FALSE

C2_Witness == Args = <<"N">> /\ ExitedNormally /\ Len(Writes) = 1 /\ ~level[12]

\* C3: a run with no argument, or with two or more arguments (whatever they
\* are), never writes a pin and exits normally.
C3_WrongCountNoWrite ==
    CountInvalid(Args) =>
        /\ Writes = <<>>
        /\ level = start.level
        /\ RunsToExit

C3_Witness ==
    /\ ExitedNormally
    /\ Len(Args) = 2 /\ Args[1] = "Y"
    /\ start.level[12] = FALSE

\* C4: a run with one argument that is neither "Y" nor "N" (the comparison is
\* exact and case-sensitive) never writes a pin, raises no error and exits
\* normally.
C4_OtherValueNoWrite ==
    ValueInvalid(Args) =>
        /\ Writes = <<>>
        /\ level = start.level
        /\ RunsToExit

C4_Witness == ExitedNormally /\ Args = <<"y">> /\ start.level[12] = FALSE

\* C5 as stated: a run on invalid input ends with no GPIO operation of any
\* kind performed and the hardware (direction and level) as it was before.
C5_NoGpioOperationAtAll ==
    (Invalid(Args) /\ pc = "done") =>
        /\ ops = <<>>
        /\ direction = start.direction
        /\ level = start.level

\* C5 amended: a run on invalid input ends having performed exactly
\* setmode(BOARD) and setup(12, OUT) and no write: the output level of every
\* pin is as before the run, and pin 12 is an output.
C5_OnlyConfigured ==
    (Invalid(Args) /\ pc = "done") =>
        /\ ops = <<OpSetmode("BOARD"), OpSetup(12, "OUT")>>
        /\ level = start.level
        /\ direction = [start.direction EXCEPT ![12] = "OUT"]
        /\ gpio_mode = "BOARD"
        /\ status = "ok"

C5_Witness ==
    /\ Invalid(Args) /\ ExitedNormally
    /\ start.direction[12] = "IN" /\ direction[12] = "OUT"

\* C6: a pin is never written before it is configured: every write is
\* preceded, in the same run, by setmode(BOARD) and then by setup of that
\* same pin as an output.
C6_ConfigureBeforeWrite ==
    \A k \in 1 .. Len(ops) :
        ops[k].op = "output" =>
            /\ \E i \in 1 .. k : \E j \in 1 .. k :
                   /\ i < j /\ j < k
                   /\ ops[i] = OpSetmode("BOARD")
                   /\ ops[j] = OpSetup(ops[k].pin, "OUT")
            /\ gpio_mode = "BOARD"
            /\ direction[ops[k].pin] = "OUT"

C6_Witness == Len(Writes) = 1 /\ start.direction[12] = "IN"

\* C7: a run writes the pin once when its argument list is exactly "Y" or
\* exactly "N" and not at all otherwise; no run writes the pin twice.
C7_OneWriteOrNone ==
    /\ Len(Writes) <= 1
    /\ pc = "done" =>
           Len(Writes) = (IF Args \in {<<"Y">>, <<"N">>} THEN 1 ELSE 0)

C7_Witness == pc = "done" /\ Len(Writes) = 1 /\ prev.ran /\ prev.ops = <<OpSetmode("BOARD"), OpSetup(12, "OUT")>>

\* C8: running with "Y" twice in a row leaves the hardware as running with
\* "Y" once left it: pin 12 high and an output, whatever the level was before.
C8_YTwiceSameAsOnce ==
    (prev.ran /\ prev.args = <<"Y">> /\ Args = <<"Y">> /\ pc = "done") =>
        /\ level = start.level
        /\ direction = start.direction
        /\ level[12] = TRUE
        /\ direction[12] = "OUT"

C8_Witness ==
    /\ prev.ran /\ prev.args = <<"Y">> /\ Args = <<"Y">> /\ ExitedNormally
    /\ Len(Writes) = 1

\* C9: every GPIO operation that names a pin names pin 12, whatever the
\* arguments; no other pin's direction or level is changed.
C9_AlwaysPin12 ==
    /\ \A k \in 1 .. Len(ops) : ops[k].op \in {"setup", "output"} => ops[k].pin = 12
    /\ \A p \in Pins \ {12} :
           direction[p] = start.direction[p] /\ level[p] = start.level[p]

C9_Witness == Len(ops) = 3 /\ Len(Args) = 1 /\ pc = "done"

\* C10: a run with a wrong argument count and a run with one unrecognised
\* argument cannot be told apart: the same GPIO operations in the same order,
\* no pin write, no error (so no traceback), the same exit status 0.
C10_InvalidRunsAlike ==
    (/\ prev.ran /\ pc = "done"
     /\ \/ CountInvalid(prev.args) /\ ValueInvalid(Args)
        \/ ValueInvalid(prev.args) /\ CountInvalid(Args)) =>
        /\ ops = prev.ops
        /\ Writes = <<>>
        /\ status = prev.status
        /\ status = "ok"

C10_Witness ==
    /\ prev.ran /\ ExitedNormally
    /\ CountInvalid(prev.args) /\ ValueInvalid(Args)
====
